---- MODULE Spec2Model ----
(***************************************************************************)
(* Verification model of code/Q1_dynamic_sys.py: the luxury-tax schedule,  *)
(* the payroll -> win-rate / revenue / expense conversions, the two-state  *)
(* dynamics, the forward-Euler loops of objective_function,                *)
(* constraint_min_profit and the diagnostic simulation, the                *)
(* differential_evolution call and the scenario comparison.                *)
(*                                                                         *)
(* Number representation.  The script computes in IEEE doubles; the model  *)
(* computes in integers (fixed point), every quantity with a stated unit:  *)
(*   - calculate_luxury_tax works in whole dollars, as in the source;      *)
(*     bracket multipliers are held in quarters (2.5 = 10/4);              *)
(*   - the dynamics work in money units of MoneyUnit dollars ($100k);      *)
(*   - win rates are held in 1/WinScale, logarithms in 1/LnScale,          *)
(*     discount factors in 1/DiscScale;                                    *)
(*   - a product followed by a division floors, where the double rounds.   *)
(***************************************************************************)
EXTENDS Integers, Sequences, FiniteSets, TLC

VARIABLES
  taxlog,   \* SpecTax: the last two calls of calculate_luxury_tax
  ev,       \* SpecEval: the evaluation in progress (locals of the running loop)
  ret,      \* SpecEval: the value returned by the evaluation that just finished
  pc,       \* Spec: position of the script
  opt,      \* Spec: state of the differential_evolution search
  result,   \* Spec: the OptimizeResult (x, fun, success)
  sim,      \* Spec: states, profits, revenues, expenses of the simulation
  scen,     \* Spec: conservative_value, aggressive_value, optimal_value, report, best
  call      \* SpecCalls: the last call of one of the script's functions

vars == <<taxlog, ev, ret, pc, opt, result, sim, scen, call>>

Min(a, b) == IF a <= b THEN a ELSE b
Max(a, b) == IF a >= b THEN a ELSE b

\* always TRUE; testing it makes the evaluator compute v before going on
Evaluated(v) == v = v

(***************************************************************************)
(* League parameters and the bracket table (Q1_dynamic_sys.py 42-54).      *)
(***************************************************************************)
LUXURY_TAX_LINE == 187895000

\* one million dollars (the 1e6 of salary / 1e6)
Million == 1000000

\* float('inf'): larger than every excess the model evaluates
Inf == 2000000000

\* denominator of the bracket multipliers: 10/4 = 2.5, 11/4 = 2.75, ...
RateDen == 4

TAX_BRACKETS ==
  << <<0, 4999999, 10>>,
     <<5000000, 9999999, 11>>,
     <<10000000, 14999999, 14>>,
     <<15000000, 19999999, 17>>,
     <<20000000, Inf, 19>> >>

\* taxable * rate for a rate held in 1/RateDen: floor(taxable * rate / RateDen),
\* computed on quotient and remainder so that the product stays in range
MulRate(taxable, rate) ==
  (taxable \div RateDen) * rate + ((taxable % RateDen) * rate) \div RateDen

\* rate if is_repeater else rate - 1.0
ActualRate(rate, is_repeater) == IF is_repeater THEN rate ELSE rate - RateDen

(***************************************************************************)
(* calculate_luxury_tax: the loop over the brackets, one iteration per     *)
(* call of TaxLoop.  acc = [excess, total_tax, portions]; portions records *)
(* the taxable amount of every bracket visited.                            *)
(***************************************************************************)
\* variant of TaxBracketStep with the bracket guard comparison reversed
TaxBracketStepGuardReversed(acc, b, is_repeater) ==
  LET low == b[1]
      high == b[2]
      rate == b[3]
      taxable == IF low >= acc.excess THEN Min(acc.excess, high - low + 1) ELSE 0
  IN  IF taxable > 0
      THEN [excess |-> acc.excess - (high - low + 1),
            total_tax |-> acc.total_tax + MulRate(taxable, ActualRate(rate, is_repeater)),
            portions |-> Append(acc.portions, taxable)]
      ELSE [acc EXCEPT !.portions = Append(acc.portions, 0)]

\* variant of TaxBracketStep that leaves the excess as it was after taxing a bracket
TaxBracketStepNoDecrement(acc, b, is_repeater) ==
  LET low == b[1]
      high == b[2]
      rate == b[3]
      taxable == IF low <= acc.excess THEN Min(acc.excess, high - low + 1) ELSE 0
  IN  IF taxable > 0
      THEN [excess |-> acc.excess,
            total_tax |-> acc.total_tax + MulRate(taxable, ActualRate(rate, is_repeater)),
            portions |-> Append(acc.portions, taxable)]
      ELSE [acc EXCEPT !.portions = Append(acc.portions, 0)]

TaxBracketStep(acc, b, is_repeater) ==
  LET low == b[1]
      high == b[2]
      rate == b[3]
      taxable == IF low <= acc.excess THEN Min(acc.excess, high - low + 1) ELSE 0
  IN  IF taxable > 0
      THEN [excess |-> acc.excess - (high - low + 1),
            total_tax |-> acc.total_tax + MulRate(taxable, ActualRate(rate, is_repeater)),
            portions |-> Append(acc.portions, taxable)]
      ELSE [acc EXCEPT !.portions = Append(acc.portions, 0)]

RECURSIVE TaxLoop(_, _, _)
TaxLoop(k, acc, is_repeater) ==
  IF k > Len(TAX_BRACKETS) \/ acc.excess <= 0
  THEN acc
  ELSE TaxLoop(k + 1, TaxBracketStep(acc, TAX_BRACKETS[k], is_repeater), is_repeater)

\* variant of TaxRun that taxes the whole payroll above the threshold instead of
\* the excess over it
TaxRunWholePayroll(salary, is_repeater) ==
  IF salary <= LUXURY_TAX_LINE
  THEN [excess |-> 0, total_tax |-> 0, portions |-> << >>]
  ELSE TaxLoop(1, [excess |-> salary, total_tax |-> 0,
                   portions |-> << >>], is_repeater)

TaxRun(salary, is_repeater) ==
  IF salary <= LUXURY_TAX_LINE
  THEN [excess |-> 0, total_tax |-> 0, portions |-> << >>]
  ELSE TaxLoop(1, [excess |-> salary - LUXURY_TAX_LINE, total_tax |-> 0,
                   portions |-> << >>], is_repeater)

calculate_luxury_tax(salary) == TaxRun(salary, TRUE).total_tax

(***************************************************************************)
(* Fixed-point scales.                                                     *)
(***************************************************************************)
\* dollars per money unit of the dynamics (state, payroll, revenue, expense)
MoneyUnit == 100000
\* win rates are integers in 1/WinScale
WinScale == 100000
\* logarithms are integers in 1/LnScale
LnScale == 10000
\* discount factors and their exponents are integers in 1/DiscScale
DiscScale == 10000

(***************************************************************************)
(* Calibrated parameters (Q1_dynamic_sys.py 112-176).  R_FIXED, ALPHA and  *)
(* BETA are the least-squares solution of lines 123-130 on historical_data *)
(* (-1720.78M, 2558.98M, 785.42M), the win-rate slope and intercept the    *)
(* polyfit of lines 150-153 (0.0025835, 0.5607967), C_OPS the mean of line *)
(* 163 (235.87M); all rounded to the model's units.                        *)
(***************************************************************************)
R_FIXED == -17208
ALPHA == 25590
BETA == 7854
\* brand_value / 1e9, in money units
BrandScale == 1000000000 \div MoneyUnit

ETA == 5000
ZETA == 1000
\* DELTA = 0.15 = DELTA_NUM / DELTA_DEN
DELTA_NUM == 15
DELTA_DEN == 100

\* SALARY_WIN_SLOPE in 1/SlopeScale, SALARY_WIN_INTERCEPT in 1/WinScale
SlopeScale == 10000000
SALARY_WIN_SLOPE == 25835
SALARY_WIN_INTERCEPT == 56080

C_OPS == 2359

PLAYOFF_BONUS == 347
PLAYOFF_THRESHOLD == 50000

STAR_EFFECT == 1

\* the clip bounds 0.3 and 0.8 of win_rate_function
WIN_MIN == 30000
WIN_MAX == 80000

(***************************************************************************)
(* np.log on a positive integer n, in 1/LnScale: n = 2^k * m with m in     *)
(* [1, 2), ln n = k ln 2 + 2 atanh((m - 1)/(m + 1)), the series cut after  *)
(* the z^7 term.                                                           *)
(***************************************************************************)
LN2 == 6931
\* ln 10, used for payrolls given as m * 10^e
LN10 == 23026

\* the doubles -inf and nan: np.log(0) is -inf and np.log of a negative number
\* is nan (numpy warns and returns, it does not raise); every arithmetic
\* operation on nan gives nan and every comparison with nan is False
NegInf == 0 - Inf
NaN == NegInf - 1

RECURSIVE Log2Floor(_)
Log2Floor(n) == IF n < 2 THEN 0 ELSE 1 + Log2Floor(n \div 2)

RECURSIVE Pow2(_)
Pow2(k) == IF k = 0 THEN 1 ELSE 2 * Pow2(k - 1)

LnInt(n) ==
  LET k == Log2Floor(n)
      p == Pow2(k)
      z == ((n - p) * LnScale) \div (n + p)
      z2 == (z * z) \div LnScale
      t3 == (z * z2) \div LnScale
      t5 == (t3 * z2) \div LnScale
      t7 == (t5 * z2) \div LnScale
  IN  k * LN2 + 2 * (z + t3 \div 3 + t5 \div 5 + t7 \div 7)

\* np.log(salary / 1e6) for a salary in money units
LogSalaryMillions(salary) ==
  IF salary > 0 THEN LnInt(salary) - LnInt(Million \div MoneyUnit)
  ELSE IF salary = 0 THEN NegInf
  ELSE NaN

\* np.log(salary / 1e6) for a salary of m * 10^e money units (a double holds
\* payrolls far outside the range of the model's integers)
LogSalaryMillionsE(m, e) ==
  IF m > 0 THEN LogSalaryMillions(m) + e * LN10 ELSE LogSalaryMillions(m)

\* np.clip(s, lo, hi)
Clip(s, lo, hi) == Min(Max(s, lo), hi)

(***************************************************************************)
(* win_rate_function, revenue_function, expense_function, dynamics.        *)
(***************************************************************************)
\* divisor that brings SALARY_WIN_SLOPE * ln to 1/WinScale
SlopeLnDiv == (SlopeScale \div WinScale) * LnScale

\* SALARY_WIN_SLOPE * l in 1/WinScale, for a logarithm l in 1/LnScale:
\* floor(SALARY_WIN_SLOPE * l / SlopeLnDiv), divided in two stages so that the
\* product stays in range
MulSlope(l) ==
  LET d == SlopeScale \div WinScale
  IN  (SALARY_WIN_SLOPE * (l \div d) + (SALARY_WIN_SLOPE * (l % d)) \div d) \div LnScale

\* lines 182-183 on the value l of np.log(salary / 1e6): the slope is positive,
\* so -inf stays -inf and is clipped to the lower bound; np.clip(nan) is nan
WinRateOfLog(l) ==
  IF l = NaN THEN NaN
  ELSE IF l = NegInf THEN Clip(NegInf, WIN_MIN, WIN_MAX)
  ELSE Clip(MulSlope(l) + SALARY_WIN_INTERCEPT, WIN_MIN, WIN_MAX)

\* win_rate_function on a payroll of m * 10^e money units
win_rate_function_scaled(m, e) == WinRateOfLog(LogSalaryMillionsE(m, e))

win_rate_function(salary) == win_rate_function_scaled(salary, 0)

\* variant of revenue_function with the playoff threshold exclusive
revenue_functionExclusive(win_rate, brand_value) ==
  LET base_revenue == R_FIXED + (ALPHA * win_rate) \div WinScale
                      + (BETA * brand_value) \div BrandScale
      playoff_bonus == IF win_rate > PLAYOFF_THRESHOLD THEN PLAYOFF_BONUS ELSE 0
  IN  IF win_rate = NaN THEN NaN ELSE base_revenue + playoff_bonus

\* a nan win rate makes base_revenue nan (and fails the comparison of line 189)
revenue_function(win_rate, brand_value) ==
  LET base_revenue == R_FIXED + (ALPHA * win_rate) \div WinScale
                      + (BETA * brand_value) \div BrandScale
      playoff_bonus == IF win_rate >= PLAYOFF_THRESHOLD THEN PLAYOFF_BONUS ELSE 0
  IN  IF win_rate = NaN THEN NaN ELSE base_revenue + playoff_bonus

\* calculate_luxury_tax takes and returns dollars
expense_function(salary) ==
  LET luxury_tax == calculate_luxury_tax(salary * MoneyUnit) \div MoneyUnit
  IN  salary + luxury_tax + C_OPS

\* variant of dynamics that subtracts the payroll a second time from the profit rate
dynamicsPayrollTwice(state, salary) ==
  LET B == state[2]
      S == win_rate_function(salary)
      R == revenue_function(S, B)
      E == expense_function(salary)
  IN  <<R - E - salary,
        (ETA * S) \div WinScale + ZETA * STAR_EFFECT - (DELTA_NUM * B) \div DELTA_DEN>>

\* variant of dynamics in which the cumulative profit earns interest
dynamicsProfitBearsInterest(state, salary) ==
  LET P == state[1]
      B == state[2]
      S == win_rate_function(salary)
      R == revenue_function(S, B)
      E == expense_function(salary)
      dP_dt == R - E + (DELTA_NUM * P) \div DELTA_DEN
      dB_dt == (ETA * S) \div WinScale + ZETA * STAR_EFFECT
               - (DELTA_NUM * B) \div DELTA_DEN
  IN  IF S = NaN THEN <<NaN, NaN>> ELSE <<dP_dt, dB_dt>>

\* variant of dynamics in which performance and star effect erode the brand
\* value instead of building it
dynamicsBrandErodes(state, salary) ==
  LET B == state[2]
      S == win_rate_function(salary)
      R == revenue_function(S, B)
      E == expense_function(salary)
  IN  IF S = NaN THEN <<NaN, NaN>>
      ELSE <<R - E, 0 - (ETA * S) \div WinScale - ZETA * STAR_EFFECT
                    - (DELTA_NUM * B) \div DELTA_DEN>>

\* variant of dynamics in which the brand value does not decay
dynamicsNoDecay(state, salary) ==
  LET B == state[2]
      S == win_rate_function(salary)
      R == revenue_function(S, B)
      E == expense_function(salary)
  IN  IF S = NaN THEN <<NaN, NaN>>
      ELSE <<R - E, (ETA * S) \div WinScale + ZETA * STAR_EFFECT>>

\* state = <<P, B>>; the result is <<dP_dt, dB_dt>>; t is not read by the source;
\* a nan win rate makes both derivatives nan
dynamics(state, salary) ==
  LET P == state[1]
      B == state[2]
      S == win_rate_function(salary)
      R == revenue_function(S, B)
      E == expense_function(salary)
      dP_dt == R - E
      dB_dt == (ETA * S) \div WinScale + ZETA * STAR_EFFECT
               - (DELTA_NUM * B) \div DELTA_DEN
  IN  IF S = NaN THEN <<NaN, NaN>> ELSE <<dP_dt, dB_dt>>

(***************************************************************************)
(* Initial conditions, horizon, grid, discounting (lines 229-243).         *)
(***************************************************************************)
P0 == 0
B0 == 12460
H == 5
\* number of points of t = np.linspace(0, H, 100)
NGrid == 100
\* RHO = 0.05 = RHO_NUM / RHO_DEN
RHO_NUM == 5
RHO_DEN == 100
\* W1 = 0.6 and W2 = 0.4, in 1/WeightDen
W1 == 6
W2 == 4
WeightDen == 10
\* V = state[1] * 7
VALUATION_MULTIPLE == 7
\* the 50e6 of constraint_min_profit, in money units
MAX_LOSS == 500

\* x * dt, with dt = t[i+1] - t[i] = H / (NGrid - 1)
MulDt(x) == (x * H) \div (NGrid - 1)

\* RHO * t[i], in 1/DiscScale
RhoT(i) == (RHO_NUM * i * H * DiscScale) \div (RHO_DEN * (NGrid - 1))

\* np.exp(-x) for 0 <= x < 1 in 1/DiscScale: the Taylor series up to x^5
ExpNeg(x) ==
  LET t2 == (x * x) \div (2 * DiscScale)
      t3 == (t2 * x) \div (3 * DiscScale)
      t4 == (t3 * x) \div (4 * DiscScale)
      t5 == (t4 * x) \div (5 * DiscScale)
  IN  DiscScale - x + t2 - t3 + t4 - t5

\* np.interp(t, np.linspace(0, H, len(traj)), traj)[i], i = 0 .. NGrid-1
Interp(traj, i) ==
  LET n == Len(traj)
      k == (i * (n - 1)) \div (NGrid - 1)
      r == (i * (n - 1)) % (NGrid - 1)
  IN  IF k >= n - 1
      THEN traj[n]
      ELSE traj[k + 1] + ((traj[k + 2] - traj[k + 1]) * r) \div (NGrid - 1)

\* variant of EulerStep with dt = H / NGrid
EulerStepGridDt(state, dstate) ==
  <<state[1] + (dstate[1] * H) \div NGrid, state[2] + (dstate[2] * H) \div NGrid>>

\* state + dstate * dt
EulerStep(state, dstate) ==
  <<state[1] + MulDt(dstate[1]), state[2] + MulDt(dstate[2])>>

(***************************************************************************)
(* objective_function (lines 245-273).  ObjStep is the body of the loop    *)
(* for index i; acc = [state, total_value].                                *)
(***************************************************************************)
ObjInit == [state |-> <<P0, B0>>, total_value |-> 0]

\* variant of ObjStep that discounts with t[i] instead of t[i+1]
ObjStepDiscountLeft(acc, traj, i) ==
  LET salary == Interp(traj, i)
      dstate == dynamics(acc.state, salary)
      state == EulerStep(acc.state, dstate)
      V == state[2] * VALUATION_MULTIPLE
      discount == ExpNeg(RhoT(i))
  IN  [state |-> state,
       total_value |-> acc.total_value
          + MulDt((discount * ((W1 * state[1] + W2 * V) \div WeightDen)) \div DiscScale)]

ObjStep(acc, traj, i) ==
  LET salary == Interp(traj, i)
      dstate == dynamics(acc.state, salary)
      state == EulerStep(acc.state, dstate)
      V == state[2] * VALUATION_MULTIPLE
      discount == ExpNeg(RhoT(i + 1))
  IN  [state |-> state,
       total_value |-> acc.total_value
          + MulDt((discount * ((W1 * state[1] + W2 * V) \div WeightDen)) \div DiscScale)]

\* for i in range(lo, hi): ObjStep; the range is halved instead of peeled one
\* index at a time (the steps run in the same ascending order)
RECURSIVE ObjLoop(_, _, _, _)
ObjLoop(acc, traj, lo, hi) ==
  IF lo >= hi THEN acc
  ELSE IF hi = lo + 1 THEN ObjStep(acc, traj, lo)
  ELSE LET mid == (lo + hi) \div 2
           left == ObjLoop(acc, traj, lo, mid)
       IN  IF Evaluated(left) THEN ObjLoop(left, traj, mid, hi) ELSE left

objective_function(salary_trajectory) ==
  0 - ObjLoop(ObjInit, salary_trajectory, 0, NGrid - 1).total_value

(***************************************************************************)
(* constraint_min_profit (lines 275-292).  ConStep is the body of the loop;*)
(* acc = [state, min_annual_profit].                                       *)
(***************************************************************************)
ConInit == [state |-> <<P0, B0>>, min_annual_profit |-> Inf]

\* variant of ConStep that tracks the minimum of cumulative profit
ConStepCumulative(acc, traj, i) ==
  LET salary == Interp(traj, i)
      dstate == dynamics(acc.state, salary)
      state == EulerStep(acc.state, dstate)
  IN  [state |-> state,
       min_annual_profit |-> Min(acc.min_annual_profit, state[1])]

\* variant of ConStep that advances the cumulative profit and keeps the brand value
ConStepProfitOnly(acc, traj, i) ==
  LET salary == Interp(traj, i)
      dstate == dynamics(acc.state, salary)
      annual_profit == dstate[1]
  IN  [state |-> <<EulerStep(acc.state, dstate)[1], acc.state[2]>>,
       min_annual_profit |-> Min(acc.min_annual_profit, annual_profit)]

ConStep(acc, traj, i) ==
  LET salary == Interp(traj, i)
      dstate == dynamics(acc.state, salary)
      annual_profit == dstate[1]
  IN  [state |-> EulerStep(acc.state, dstate),
       min_annual_profit |-> Min(acc.min_annual_profit, annual_profit)]

\* for i in range(lo, hi): ConStep, halved like ObjLoop
RECURSIVE ConLoop(_, _, _, _)
ConLoop(acc, traj, lo, hi) ==
  IF lo >= hi THEN acc
  ELSE IF hi = lo + 1 THEN ConStep(acc, traj, lo)
  ELSE LET mid == (lo + hi) \div 2
           left == ConLoop(acc, traj, lo, mid)
       IN  IF Evaluated(left) THEN ConLoop(left, traj, mid, hi) ELSE left

constraint_min_profit(salary_trajectory) ==
  ConLoop(ConInit, salary_trajectory, 0, NGrid - 1).min_annual_profit + MAX_LOSS

(***************************************************************************)
(* The state evolution simulation (lines 334-359).  SimStep is the body of *)
(* the loop for index i; acc = [states, profits, revenues, expenses].      *)
(***************************************************************************)
SimInit == [states |-> << <<P0, B0>> >>, profits |-> << >>,
            revenues |-> << >>, expenses |-> << >>]

SimStep(acc, traj, i) ==
  LET salary == Interp(traj, i)
      state == acc.states[Len(acc.states)]
      S == win_rate_function(salary)
      R == revenue_function(S, state[2])
      E == expense_function(salary)
      dstate == dynamics(state, salary)
      new_state == EulerStep(state, dstate)
  IN  [states |-> Append(acc.states, new_state),
       profits |-> Append(acc.profits, dstate[1]),
       revenues |-> Append(acc.revenues, R),
       expenses |-> Append(acc.expenses, E)]

\* for i in range(lo, hi): SimStep, halved like ObjLoop
RECURSIVE SimLoop(_, _, _, _)
SimLoop(acc, traj, lo, hi) ==
  IF lo >= hi THEN acc
  ELSE IF hi = lo + 1 THEN SimStep(acc, traj, lo)
  ELSE LET mid == (lo + hi) \div 2
           left == SimLoop(acc, traj, lo, mid)
       IN  IF Evaluated(left) THEN SimLoop(left, traj, mid, hi) ELSE left

Simulation(traj) == SimLoop(SimInit, traj, 0, NGrid - 1)

(***************************************************************************)
(* The optimisation and the scenario analysis (lines 297-314, 422-437).    *)
(***************************************************************************)
n_periods == 5
\* bounds = [(150e6, 250e6)] * n_periods, in money units
PAYROLL_MIN == 1500
PAYROLL_MAX == 2500
\* maxiter of the differential_evolution call
MAXITER == 200

Flat(level) == [k \in 1..n_periods |-> level]

\* the two ends of bounds
PayrollLevels == {PAYROLL_MIN, PAYROLL_MAX}

\* number of payroll levels strictly inside bounds that the search may visit
\* besides the corners of the box
InteriorLevels == 1

InteriorPayrolls ==
  { PAYROLL_MIN + (k * (PAYROLL_MAX - PAYROLL_MIN)) \div (InteriorLevels + 1) :
      k \in 1..InteriorLevels }

\* variant of Candidates in which trial vectors are not brought back inside bounds
CandidatesUnclipped ==
  [1..n_periods -> PayrollLevels]
    \cup { Flat(level) : level \in InteriorPayrolls }
    \cup { Flat(PAYROLL_MAX + (PAYROLL_MAX - PAYROLL_MIN) \div 2) }

\* the decision vectors differential_evolution can evaluate: it keeps every
\* population member and every trial vector inside bounds; the model takes the
\* corners of the box and the flat vectors at the interior levels
Candidates ==
  [1..n_periods -> PayrollLevels] \cup { Flat(level) : level \in InteriorPayrolls }

\* the energies of the candidates: objective_function is the callable handed
\* to differential_evolution (line 306), no constraint or penalty is passed
EnergyOf(x) == objective_function(x)

\* EnergyOf tabulated once over the candidates (@@ makes the table explicit)
Energy == [x \in Candidates |-> EnergyOf(x)] @@ << >>

\* [LUXURY_TAX_LINE * 0.95] * n_periods and [220e6] * n_periods, in money units
conservative_salaries == Flat(((LUXURY_TAX_LINE \div 100) * 95) \div MoneyUnit)
aggressive_salaries == Flat((220 * Million) \div MoneyUnit)

\* -objective_function(conservative_salaries), -objective_function(aggressive_salaries)
conservative_value == 0 - objective_function(conservative_salaries)
aggressive_value == 0 - objective_function(aggressive_salaries)

(***************************************************************************)
(* SpecTax: calculate_luxury_tax applied to payrolls drawn from a bounded  *)
(* set; taxlog keeps the last two calls (payroll, tax, bracket portions).  *)
(***************************************************************************)
\* payroll inputs: 0, the threshold plus k million dollars, and the payrolls four
\* dollars to either side of the threshold and of each bracket boundary
TaxBelow == 2
TaxAbove == 45

TaxSalaries ==
  {0} \cup { LUXURY_TAX_LINE + k * Million : k \in (0 - TaxBelow)..TaxAbove }
      \cup { LUXURY_TAX_LINE + TAX_BRACKETS[k][1] + d : k \in 1..Len(TAX_BRACKETS),
                                                        d \in {-4, 4} }

TaxCallRecord(s) ==
  LET r == TaxRun(s, TRUE)
  IN  [salary |-> s, tax |-> calculate_luxury_tax(s), portions |-> r.portions]

Idle == [fn |-> "idle"]
NoValue == [none |-> TRUE]

\* no function has been called yet
NoCall == [fn |-> "none"]

OthersIdle ==
  /\ pc = "off" /\ opt = NoValue /\ result = NoValue /\ sim = NoValue /\ scen = NoValue
  /\ call = NoCall

InitTax == taxlog = << >> /\ ev = Idle /\ ret = NoValue /\ OthersIdle

TaxCall ==
  \E s \in TaxSalaries :
    /\ taxlog' = IF Len(taxlog) < 2
              THEN Append(taxlog, TaxCallRecord(s))
              ELSE <<taxlog[2], TaxCallRecord(s)>>
    /\ UNCHANGED <<ev, ret, pc, opt, result, sim, scen, call>>

NextTax == TaxCall

SpecTax == InitTax /\ [][NextTax]_vars

(***************************************************************************)
(* SpecEval: objective_function, constraint_min_profit and the simulation  *)
(* loop applied, one after another, to payroll trajectories drawn from a   *)
(* bounded set, one loop iteration per step.  ev holds the locals of the   *)
(* running evaluation; trace is the sequence of states it went through.    *)
(***************************************************************************)
\* synthetic payroll levels above the policy ceiling, LevelStep apart
EvalExtraLevels == 1
LevelStep == (PAYROLL_MAX - PAYROLL_MIN) \div 2

EvalLevels ==
  {PAYROLL_MIN, PAYROLL_MAX}
    \cup { PAYROLL_MAX + k * LevelStep : k \in 1..EvalExtraLevels }

\* a flat trajectory with the decision value at point k replaced by spike
Spike(base, k, spike) == [j \in 1..n_periods |-> IF j = k THEN spike ELSE base]

EvalTrajectories ==
  { Spike(b, k, v) : b \in EvalLevels, k \in 1..n_periods, v \in EvalLevels }
    \cup {conservative_salaries, aggressive_salaries}

EvalFns == {"objective", "constraint", "simulate"}

\* variant of StartState that goes on from the state the previous evaluation left
StartStateStale(prev) == IF prev.fn = "idle" THEN <<P0, B0>> ELSE prev.state

\* state = [P0, B0] (lines 256, 279) and states = [[P0, B0]] (line 335); prev is
\* the record of the evaluation that ran before
StartState(prev) == <<P0, B0>>

\* number of evaluations a behaviour of SpecEval runs one after another
MaxCalls == 2

NoEval ==
  [fn |-> "idle", running |-> FALSE, calls |-> 0, traj |-> << >>, i |-> 0,
   state |-> <<0, 0>>,
   total_value |-> 0, min_annual_profit |-> 0, sim |-> SimInit, trace |-> << >>]

NoReturn == [fn |-> "none", traj |-> << >>, value |-> <<0>>]

InitEval ==
  /\ ev = NoEval /\ ret = NoReturn
  /\ taxlog = << >> /\ OthersIdle

EvalBegin ==
  /\ ~ev.running
  /\ ev.calls < MaxCalls
  /\ \E fn \in EvalFns, traj \in EvalTrajectories :
       ev' = [fn |-> fn, running |-> TRUE, calls |-> ev.calls + 1,
              traj |-> traj, i |-> 0,
              state |-> StartState(ev),
              total_value |-> 0,
              min_annual_profit |-> Inf,
              sim |-> [SimInit EXCEPT !.states = <<StartState(ev)>>],
              trace |-> <<StartState(ev)>>]
  /\ ret' = NoReturn
  /\ UNCHANGED <<taxlog, pc, opt, result, sim, scen, call>>

\* variant of EvalStep in which the interpolated payroll of the step is written
\* back into the first entry of the trajectory that was passed in
EvalStepWritesTrajectory ==
  /\ ev.running
  /\ ev.i < NGrid - 1
  /\ LET stepped ==
           CASE ev.fn = "objective" ->
                  LET a == ObjStep([state |-> ev.state, total_value |-> ev.total_value],
                                   ev.traj, ev.i)
                  IN  [ev EXCEPT !.state = a.state, !.total_value = a.total_value,
                                 !.i = @ + 1, !.trace = Append(@, a.state)]
             [] ev.fn = "constraint" ->
                  LET a == ConStep([state |-> ev.state,
                                    min_annual_profit |-> ev.min_annual_profit],
                                   ev.traj, ev.i)
                  IN  [ev EXCEPT !.state = a.state,
                                 !.min_annual_profit = a.min_annual_profit,
                                 !.i = @ + 1, !.trace = Append(@, a.state)]
             [] ev.fn = "simulate" ->
                  LET a == SimStep(ev.sim, ev.traj, ev.i)
                  IN  [ev EXCEPT !.state = ev.sim.states[Len(ev.sim.states)],
                                 !.sim = a,
                                 !.i = @ + 1,
                                 !.trace = Append(@, a.states[Len(a.states)])]
     IN  ev' = [stepped EXCEPT !.traj[1] = Interp(ev.traj, ev.i)]
  /\ UNCHANGED <<taxlog, ret, pc, opt, result, sim, scen, call>>

EvalStep ==
  /\ ev.running
  /\ ev.i < NGrid - 1
  /\ ev' =
       CASE ev.fn = "objective" ->
              LET a == ObjStep([state |-> ev.state, total_value |-> ev.total_value],
                               ev.traj, ev.i)
              IN  [ev EXCEPT !.state = a.state, !.total_value = a.total_value,
                             !.i = @ + 1, !.trace = Append(@, a.state)]
         [] ev.fn = "constraint" ->
              LET a == ConStep([state |-> ev.state,
                                min_annual_profit |-> ev.min_annual_profit],
                               ev.traj, ev.i)
              IN  [ev EXCEPT !.state = a.state,
                             !.min_annual_profit = a.min_annual_profit,
                             !.i = @ + 1, !.trace = Append(@, a.state)]
         [] ev.fn = "simulate" ->
              LET a == SimStep(ev.sim, ev.traj, ev.i)
              IN  [ev EXCEPT !.state = ev.sim.states[Len(ev.sim.states)],
                             !.sim = a,
                             !.i = @ + 1,
                             !.trace = Append(@, a.states[Len(a.states)])]
  /\ UNCHANGED <<taxlog, ret, pc, opt, result, sim, scen, call>>

\* return -total_value (273); return min_annual_profit + 50e6 (292);
\* final_profit, final_brand, final_valuation (357-359)
ReturnValue(e) ==
  CASE e.fn = "objective" -> <<0 - e.total_value>>
    [] e.fn = "constraint" -> <<e.min_annual_profit + MAX_LOSS>>
    [] e.fn = "simulate" ->
         LET last == e.sim.states[Len(e.sim.states)]
         IN  <<last[1], last[2], last[2] * VALUATION_MULTIPLE>>

EvalReturn ==
  /\ ev.running
  /\ ev.i = NGrid - 1
  /\ ret' = [fn |-> ev.fn, traj |-> ev.traj, value |-> ReturnValue(ev)]
  /\ ev' = [ev EXCEPT !.running = FALSE]
  /\ UNCHANGED <<taxlog, pc, opt, result, sim, scen, call>>

NextEval == EvalBegin \/ EvalStep \/ EvalReturn

SpecEval == InitEval /\ [][NextEval]_vars

(***************************************************************************)
(* Spec: the run of the script from the differential_evolution call to the *)
(* scenario comparison.  The search is the library's; the model keeps what *)
(* the call fixes: the callable, the bounds, maxiter, greedy selection and *)
(* the returned best member.                                               *)
(***************************************************************************)
Init ==
  /\ pc = "optimize"
  /\ opt = NoValue /\ result = NoValue /\ sim = NoValue /\ scen = NoValue
  /\ taxlog = << >> /\ ev = Idle /\ ret = NoValue
  /\ call = NoCall

\* the initial population: its best member becomes the incumbent
DEInit ==
  /\ pc = "optimize"
  /\ opt = NoValue
  /\ \E x \in Candidates :
       opt' = [nit |-> 0, x |-> x, fun |-> Energy[x], converged |-> FALSE]
  /\ UNCHANGED <<taxlog, ev, ret, pc, result, sim, scen, call>>

\* variant of DEGeneration whose generation counter starts over instead of
\* reaching maxiter
DEGenerationCounterWraps ==
  /\ pc = "optimize"
  /\ opt # NoValue
  /\ opt.nit < MAXITER
  /\ ~opt.converged
  /\ \E trial \in Candidates, converged \in BOOLEAN :
       opt' = IF Energy[trial] < opt.fun
              THEN [nit |-> (opt.nit + 1) % MAXITER, x |-> trial, fun |-> Energy[trial],
                    converged |-> converged]
              ELSE [opt EXCEPT !.nit = (@ + 1) % MAXITER, !.converged = converged]
  /\ UNCHANGED <<taxlog, ev, ret, pc, result, sim, scen, call>>

\* one generation (for nit in range(1, maxiter + 1)): a trial vector replaces
\* the incumbent iff its energy is lower; at the end of the generation the
\* population has converged within tol or it has not
DEGeneration ==
  /\ pc = "optimize"
  /\ opt # NoValue
  /\ opt.nit < MAXITER
  /\ ~opt.converged
  /\ \E trial \in Candidates, converged \in BOOLEAN :
       opt' = IF Energy[trial] < opt.fun
              THEN [nit |-> opt.nit + 1, x |-> trial, fun |-> Energy[trial],
                    converged |-> converged]
              ELSE [opt EXCEPT !.nit = @ + 1, !.converged = converged]
  /\ UNCHANGED <<taxlog, ev, ret, pc, result, sim, scen, call>>

\* variant of DEFinish that reports success whether or not the search converged
DEFinishAlwaysSuccess ==
  /\ pc = "optimize"
  /\ opt # NoValue
  /\ opt.converged \/ opt.nit = MAXITER
  /\ \E xp \in Candidates :
       /\ Energy[xp] <= opt.fun
       /\ xp = opt.x \/ Energy[xp] < opt.fun
       /\ result' = [x |-> xp, fun |-> Energy[xp], success |-> TRUE]
  /\ opt' = NoValue
  /\ pc' = "simulate"
  /\ UNCHANGED <<taxlog, ev, ret, sim, scen, call>>

\* the search ends when the population has converged (tol) or at maxiter; the
\* final polish may replace the best member by one that is no worse; success
\* tells whether the search converged
DEFinish ==
  /\ pc = "optimize"
  /\ opt # NoValue
  /\ opt.converged \/ opt.nit = MAXITER
  /\ \E xp \in Candidates :
       /\ Energy[xp] <= opt.fun
       /\ xp = opt.x \/ Energy[xp] < opt.fun
       /\ result' = [x |-> xp, fun |-> Energy[xp], success |-> opt.converged]
  /\ opt' = NoValue
  /\ pc' = "simulate"
  /\ UNCHANGED <<taxlog, ev, ret, sim, scen, call>>

\* lines 334-359 with optimal_salaries = result.x
Simulate ==
  /\ pc = "simulate"
  /\ sim' = Simulation(result.x)
  /\ pc' = "scenarios"
  /\ UNCHANGED <<taxlog, ev, ret, opt, result, scen, call>>

\* lines 422-444: the three values are computed and printed in the order the
\* script lists them (lines 441-443); the line of the optimised strategy carries
\* the literal mark of the best one
ScenarioAnalysis ==
  /\ pc = "scenarios"
  /\ scen' = [conservative_value |-> conservative_value,
              aggressive_value |-> aggressive_value,
              optimal_value |-> 0 - objective_function(result.x),
              report |-> << [name |-> "conservative", value |-> conservative_value],
                            [name |-> "aggressive", value |-> aggressive_value],
                            [name |-> "optimized",
                             value |-> 0 - objective_function(result.x)] >>,
              best |-> "optimized"]
  /\ pc' = "done"
  /\ UNCHANGED <<taxlog, ev, ret, opt, result, sim, call>>

Next == DEInit \/ DEGeneration \/ DEFinish \/ Simulate \/ ScenarioAnalysis

Spec == Init /\ [][Next]_vars

\* the differential_evolution call keeps running: a step of the search that can
\* be taken is taken
FairSpec ==
  Spec /\ WF_vars(DEInit) /\ WF_vars(DEGeneration) /\ WF_vars(DEFinish)

(***************************************************************************)
(* SpecCalls: single calls of the script's functions on arguments drawn    *)
(* from bounded sets, under the script's module globals or under other     *)
(* values of the globals these functions read (TAX_BRACKETS, H, the grid   *)
(* t, W1; bounds is read by the differential_evolution call alone).  A     *)
(* Python call either returns or raises; no line of these functions        *)
(* raises, inspects its arguments or inspects the globals, so every call   *)
(* has the outcome "return".  A behaviour makes one call: the functions    *)
(* keep no state from one call to the next (see SpecEval).                 *)
(***************************************************************************)
ScriptConfig ==
  [TAX_BRACKETS |-> TAX_BRACKETS, H |-> H, NGrid |-> NGrid, W1 |-> W1,
   bounds |-> <<PAYROLL_MIN, PAYROLL_MAX>>]

\* calculate_luxury_tax reading a bracket table other than the script's
RECURSIVE TaxLoopCfg(_, _, _, _)
TaxLoopCfg(brackets, k, acc, is_repeater) ==
  IF k > Len(brackets) \/ acc.excess <= 0
  THEN acc
  ELSE TaxLoopCfg(brackets, k + 1, TaxBracketStep(acc, brackets[k], is_repeater),
                  is_repeater)

calculate_luxury_tax_cfg(brackets, salary) ==
  IF salary <= LUXURY_TAX_LINE
  THEN 0
  ELSE TaxLoopCfg(brackets, 1, [excess |-> salary - LUXURY_TAX_LINE, total_tax |-> 0,
                                portions |-> << >>], TRUE).total_tax

\* objective_function reading H, t = np.linspace(0, H, NGrid) and W1 from cfg
\* variant of MulDtCfg that keeps the step of the script's grid on every grid
MulDtCfgScriptStep(cfg, x) == (x * cfg.H) \div (NGrid - 1)

MulDtCfg(cfg, x) == (x * cfg.H) \div (cfg.NGrid - 1)

RhoTCfg(cfg, i) == (RHO_NUM * i * cfg.H * DiscScale) \div (RHO_DEN * (cfg.NGrid - 1))

\* np.interp on the grid of cfg; for H = 0 all grid points coincide and the
\* payroll it yields is multiplied by dt = 0 wherever it is used
InterpCfg(cfg, traj, i) ==
  LET n == Len(traj)
      k == (i * (n - 1)) \div (cfg.NGrid - 1)
      r == (i * (n - 1)) % (cfg.NGrid - 1)
  IN  IF k >= n - 1
      THEN traj[n]
      ELSE traj[k + 1] + ((traj[k + 2] - traj[k + 1]) * r) \div (cfg.NGrid - 1)

\* variant of ObjStepCfg that weighs the profit with 1 - W1
ObjStepCfgComplementWeight(cfg, acc, traj, i) ==
  LET salary == InterpCfg(cfg, traj, i)
      dstate == dynamics(acc.state, salary)
      state == <<acc.state[1] + MulDtCfg(cfg, dstate[1]),
                 acc.state[2] + MulDtCfg(cfg, dstate[2])>>
      V == state[2] * VALUATION_MULTIPLE
      discount == ExpNeg(RhoTCfg(cfg, i + 1))
  IN  [state |-> state,
       total_value |-> acc.total_value
          + MulDtCfg(cfg, (discount * (((WeightDen - cfg.W1) * state[1] + W2 * V)
                                         \div WeightDen)) \div DiscScale),
       states |-> Append(acc.states, state)]

\* the loop body of objective_function; states logs the states gone through
ObjStepCfg(cfg, acc, traj, i) ==
  LET salary == InterpCfg(cfg, traj, i)
      dstate == dynamics(acc.state, salary)
      state == <<acc.state[1] + MulDtCfg(cfg, dstate[1]),
                 acc.state[2] + MulDtCfg(cfg, dstate[2])>>
      V == state[2] * VALUATION_MULTIPLE
      discount == ExpNeg(RhoTCfg(cfg, i + 1))
  IN  [state |-> state,
       total_value |-> acc.total_value
          + MulDtCfg(cfg, (discount * ((cfg.W1 * state[1] + W2 * V) \div WeightDen))
                            \div DiscScale),
       states |-> Append(acc.states, state)]

\* for i in range(lo, hi): ObjStepCfg, halved like ObjLoop
RECURSIVE ObjLoopCfg(_, _, _, _, _)
ObjLoopCfg(cfg, acc, traj, lo, hi) ==
  IF lo >= hi THEN acc
  ELSE IF hi = lo + 1 THEN ObjStepCfg(cfg, acc, traj, lo)
  ELSE LET mid == (lo + hi) \div 2
           left == ObjLoopCfg(cfg, acc, traj, lo, mid)
       IN  IF Evaluated(left) THEN ObjLoopCfg(cfg, left, traj, mid, hi) ELSE left

\* range(len(t) - 1) is empty for a grid of one point
ObjRunCfg(cfg, traj) ==
  ObjLoopCfg(cfg, [state |-> <<P0, B0>>, total_value |-> 0, states |-> << >>],
             traj, 0, cfg.NGrid - 1)

objective_function_cfg(cfg, traj) == 0 - ObjRunCfg(cfg, traj).total_value

\* payrolls <<m, e>>, standing for m * 10^e money units
CallPayrolls ==
  { <<m, 0>> : m \in {-1500, -1, 0, 1, PAYROLL_MIN, PAYROLL_MAX} }
    \cup { <<1, e>> : e \in {-45, -43, -42, 41, 42, 45} }
    \cup { <<PAYROLL_MAX, e>> : e \in {-45, 45} }

CallWinRates ==
  {WIN_MIN, PLAYOFF_THRESHOLD - 1, PLAYOFF_THRESHOLD, PLAYOFF_THRESHOLD + 1,
   win_rate_function(PAYROLL_MIN), win_rate_function(PAYROLL_MAX), WIN_MAX}

CallBrands == {0, B0, 2 * B0}

CallStates == { <<p, b>> : p \in {-1000, P0, 1000}, b \in CallBrands }

CallSalaries ==
  {-1500, 0, 1, PAYROLL_MIN, LUXURY_TAX_LINE \div MoneyUnit, PAYROLL_MAX,
   PAYROLL_MAX + LevelStep}

\* bracket tables: the script's, one whose first bracket overlaps the second,
\* and one that is not ascending (second and third bracket exchanged)
BracketTables ==
  {TAX_BRACKETS,
   [TAX_BRACKETS EXCEPT ![1] = <<0, 9999999, 10>>],
   [TAX_BRACKETS EXCEPT ![2] = TAX_BRACKETS[3], ![3] = TAX_BRACKETS[2]]}

TaxConfigs == { [ScriptConfig EXCEPT !.TAX_BRACKETS = b] : b \in BracketTables }

\* horizons, grid sizes, profit weights and bounds; a negative horizon is left
\* out because np.interp is unspecified on a descending grid
\* grids of 2^k steps over [0, H], k = 0 .. MaxDoublings
MaxDoublings == 5

ResolutionConfigs ==
  { [ScriptConfig EXCEPT !.NGrid = Pow2(k) + 1] : k \in 0..MaxDoublings }

ObjectiveConfigs ==
  { [ScriptConfig EXCEPT !.H = h, !.NGrid = n, !.W1 = w, !.bounds = b] :
      h \in {0, H}, n \in {1, 2, NGrid}, w \in {0, 3, W1, WeightDen},
      b \in {<<PAYROLL_MIN, PAYROLL_MAX>>, <<PAYROLL_MAX, PAYROLL_MIN>>} }
    \cup ResolutionConfigs

CallTrajectories ==
  {Flat(PAYROLL_MIN), Flat(PAYROLL_MAX), conservative_salaries, aggressive_salaries,
   Flat(PAYROLL_MAX + LevelStep), Spike(PAYROLL_MIN, 1, PAYROLL_MAX)}

InitCalls ==
  /\ call = NoCall
  /\ taxlog = << >> /\ ev = Idle /\ ret = NoValue
  /\ pc = "off" /\ opt = NoValue /\ result = NoValue /\ sim = NoValue /\ scen = NoValue

Returned(fn, cfg, args, value) ==
  [fn |-> fn, cfg |-> cfg, args |-> args, outcome |-> "return", value |-> value]

WinRateCall ==
  /\ call = NoCall
  /\ \E p \in CallPayrolls :
       call' = Returned("win_rate_function", ScriptConfig, p,
                        <<win_rate_function_scaled(p[1], p[2])>>)
  /\ UNCHANGED <<taxlog, ev, ret, pc, opt, result, sim, scen>>

RevenueCall ==
  /\ call = NoCall
  /\ \E w \in CallWinRates, b \in CallBrands :
       call' = Returned("revenue_function", ScriptConfig, <<w, b>>,
                        <<revenue_function(w, b)>>)
  /\ UNCHANGED <<taxlog, ev, ret, pc, opt, result, sim, scen>>

DynamicsCall ==
  /\ call = NoCall
  /\ \E st \in CallStates, salary \in CallSalaries :
       call' = Returned("dynamics", ScriptConfig, <<st, salary>>, dynamics(st, salary))
  /\ UNCHANGED <<taxlog, ev, ret, pc, opt, result, sim, scen>>

TaxCallCfg ==
  /\ call = NoCall
  /\ \E cfg \in TaxConfigs, salary \in TaxSalaries :
       call' = Returned("calculate_luxury_tax", cfg, <<salary>>,
                        <<calculate_luxury_tax_cfg(cfg.TAX_BRACKETS, salary)>>)
  /\ UNCHANGED <<taxlog, ev, ret, pc, opt, result, sim, scen>>

\* args = <<trajectory, states gone through>>
ObjectiveCall ==
  /\ call = NoCall
  /\ \E cfg \in ObjectiveConfigs, traj \in CallTrajectories :
       LET run == ObjRunCfg(cfg, traj)
       IN  call' = Returned("objective_function", cfg, <<traj, run.states>>,
                            <<0 - run.total_value>>)
  /\ UNCHANGED <<taxlog, ev, ret, pc, opt, result, sim, scen>>

(***************************************************************************)
(* The luxury tax of the roster evaluation (Q2_evaluate.py 214-232 with    *)
(* Q2_config.py FINANCIAL_PARAMS).  That module counts money in millions   *)
(* of dollars; the model holds its amounts in thousandths of a million.    *)
(***************************************************************************)
\* thousandths in one million of the roster module's money
Q2Milli == 1000

\* FINANCIAL_PARAMS["luxury_tax_threshold"] = 187.9
Q2_luxury_tax_threshold == 187900

\* FINANCIAL_PARAMS["tax_brackets"]: (size, rate), sizes 5, 5, 5, 5, 999 and the
\* rates in 1/RateDen
Q2_tax_brackets ==
  << <<5 * Q2Milli, 10>>,
     <<5 * Q2Milli, 11>>,
     <<5 * Q2Milli, 14>>,
     <<5 * Q2Milli, 17>>,
     <<999 * Q2Milli, 19>> >>

\* the body of the for loop: chunk = min(over, size); tax += chunk * rate;
\* over -= size
Q2TaxBracketStep(acc, b) ==
  LET size == b[1]
      rate == b[2]
      chunk == Min(acc.over, size)
  IN  [over |-> acc.over - size, tax |-> acc.tax + MulRate(chunk, rate)]

\* for size, rate in params["tax_brackets"]: if over <= 0: break
RECURSIVE Q2TaxLoop(_, _)
Q2TaxLoop(k, acc) ==
  IF k > Len(Q2_tax_brackets) \/ acc.over <= 0
  THEN acc
  ELSE Q2TaxLoop(k + 1, Q2TaxBracketStep(acc, Q2_tax_brackets[k]))

Q2_calculate_luxury_tax(total_salary) ==
  IF total_salary <= Q2_luxury_tax_threshold
  THEN 0
  ELSE Q2TaxLoop(1, [over |-> total_salary - Q2_luxury_tax_threshold, tax |-> 0]).tax

\* an amount of the roster module in dollars, and a dollar amount in the
\* roster module's unit (x * 1e6 and x / 1e6)
Q2ToDollars(x) == x * (Million \div Q2Milli)
DollarsToQ2(x) == x \div (Million \div Q2Milli)

\* total salaries of the roster module: the excesses of TaxSalaries over the
\* roster module's threshold, an excess of 400 million deep inside the last
\* bracket (the tax on it is the largest that fits the integers of the model)
\* and a total below the threshold
Q2TotalSalaries ==
  { Q2_luxury_tax_threshold + DollarsToQ2(s - LUXURY_TAX_LINE) :
      s \in { x \in TaxSalaries : x >= LUXURY_TAX_LINE /\ (x - LUXURY_TAX_LINE) % Million = 0 } }
    \cup { Q2_luxury_tax_threshold + 400 * Q2Milli, Q2_luxury_tax_threshold - 2 * Q2Milli }

Q2TaxCall ==
  /\ call = NoCall
  /\ \E total_salary \in Q2TotalSalaries :
       call' = Returned("Q2_evaluate.calculate_luxury_tax", ScriptConfig,
                        <<total_salary>>, <<Q2_calculate_luxury_tax(total_salary)>>)
  /\ UNCHANGED <<taxlog, ev, ret, pc, opt, result, sim, scen>>

(***************************************************************************)
(* find_pareto_front (Q2_main_evaluation.py 188-201).  A summary is a list *)
(* of entries with the fields wins and profit; name stands for the other   *)
(* fields of an entry and tells equal-valued entries apart.                *)
(***************************************************************************)
\* variant of Dominates without the test that one of the two is strictly greater
DominatesOrTies(r2, r1) ==
  r2.wins >= r1.wins /\ r2.profit >= r1.profit

\* lines 195-196: r2 eliminates r1
Dominates(r2, r1) ==
  /\ r2.wins >= r1.wins /\ r2.profit >= r1.profit
  /\ r2.wins > r1.wins \/ r2.profit > r1.profit

\* the inner loop from index j on: dominated = True; break at the first r2
\* that eliminates r1 = summary[i]
RECURSIVE DominatedScan(_, _, _)
DominatedScan(summary, i, j) ==
  IF j > Len(summary) THEN FALSE
  ELSE IF i # j /\ Dominates(summary[j], summary[i]) THEN TRUE
  ELSE DominatedScan(summary, i, j + 1)

\* the outer loop from index i on: pareto.append(r1) if not dominated
RECURSIVE ParetoLoop(_, _, _)
ParetoLoop(summary, i, pareto) ==
  IF i > Len(summary) THEN pareto
  ELSE ParetoLoop(summary, i + 1,
                  IF DominatedScan(summary, i, 1) THEN pareto
                  ELSE Append(pareto, summary[i]))

find_pareto_front(summary) == ParetoLoop(summary, 1, << >>)

\* longest summary, and largest value of wins and of profit, of the model
MaxSummary == 3
MaxScore == 1

\* summaries of up to MaxSummary entries; the name of an entry is its place
Summaries ==
  UNION { { [k \in 1..n |-> [name |-> k, wins |-> w[k], profit |-> q[k]]] :
              w \in [1..n -> 0..MaxScore], q \in [1..n -> 0..MaxScore] } :
          n \in 0..MaxSummary }

ParetoCall ==
  /\ call = NoCall
  /\ \E summary \in Summaries :
       call' = Returned("find_pareto_front", ScriptConfig, <<summary>>,
                        find_pareto_front(summary))
  /\ UNCHANGED <<taxlog, ev, ret, pc, opt, result, sim, scen>>

\* grids on which line 252 is evaluated: the script's, and the grids whose
\* points are a year and a quarter of a year apart
InterpConfigs ==
  { [ScriptConfig EXCEPT !.NGrid = n] : n \in {NGrid, H + 1, 4 * H + 1} }

\* variant of SalaryInterp that follows the slope between the first two
\* decision values over the whole horizon
SalaryInterpFirstSlope(cfg, traj) ==
  [j \in 1..cfg.NGrid |->
     traj[1] + ((traj[2] - traj[1]) * (j - 1) * (Len(traj) - 1)) \div (cfg.NGrid - 1)]

\* salary_interp of line 252 (and 278): the payroll of every grid point
SalaryInterp(cfg, traj) == [j \in 1..cfg.NGrid |-> InterpCfg(cfg, traj, j - 1)]

InterpCall ==
  /\ call = NoCall
  /\ \E cfg \in InterpConfigs, traj \in EvalTrajectories :
       call' = Returned("salary_interp", cfg, <<traj>>, SalaryInterp(cfg, traj))
  /\ UNCHANGED <<taxlog, ev, ret, pc, opt, result, sim, scen>>

NextCalls ==
  \/ WinRateCall \/ RevenueCall \/ DynamicsCall \/ TaxCallCfg \/ ObjectiveCall
  \/ InterpCall \/ Q2TaxCall \/ ParetoCall

SpecCalls == InitCalls /\ [][NextCalls]_vars

(***************************************************************************)
(* Claims about the tax schedule (checked under SpecTax).                  *)
(***************************************************************************)
\* The progressive schedule of the specification: bracket k covers the excess
\* between ScheduleBounds[k] and ScheduleBounds[k+1] (the last one is unbounded)
\* and taxes the part of the excess inside it at its multiplier.
ScheduleBounds == <<0, 5 * Million, 10 * Million, 15 * Million, 20 * Million, Inf>>
ScheduleRates == <<10, 11, 14, 17, 19>>

SchedulePortion(e, k) ==
  Max(0, Min(e, ScheduleBounds[k + 1]) - ScheduleBounds[k])

RECURSIVE ScheduleSum(_, _)
ScheduleSum(e, k) ==
  IF k = 0 THEN 0
  ELSE ScheduleSum(e, k - 1) + MulRate(SchedulePortion(e, k), ScheduleRates[k])

ScheduleTax(e) == ScheduleSum(e, Len(ScheduleRates))

\* C1: for every payroll above the threshold, calculate_luxury_tax returns the
\* progressive schedule applied to the excess (every bracket taxes the part of the
\* excess inside its 5M width, the last bracket the rest); an excess of 12 million
\* yields 33.25 million.
C1_TaxIsProgressiveSchedule ==
  \A i \in DOMAIN taxlog :
    taxlog[i].salary > LUXURY_TAX_LINE
      => taxlog[i].tax = ScheduleTax(taxlog[i].salary - LUXURY_TAX_LINE)

\* C10: the luxury tax is monotone non-decreasing in payroll: of two calls, the
\* one with the larger payroll never returns the smaller tax.
C10_TaxMonotone ==
  \A i, j \in DOMAIN taxlog :
    (0 <= taxlog[i].salary /\ taxlog[i].salary < taxlog[j].salary)
      => taxlog[i].tax <= taxlog[j].tax

\* C10 witness: two calls above the threshold, the second payroll larger and
\* reaching a further bracket, with a strictly larger tax.
C10_Witness ==
  /\ Len(taxlog) = 2
  /\ taxlog[1].salary > LUXURY_TAX_LINE
  /\ taxlog[1].salary < taxlog[2].salary
  /\ Len(taxlog[1].portions) < Len(taxlog[2].portions)
  /\ taxlog[1].tax < taxlog[2].tax

\* C11: calculate_luxury_tax returns 0 for every payroll up to and including the
\* threshold, and for an excess e inside the first bracket the tax is the first
\* multiplier (2.5) times e, so it is at most 3 e and vanishes with e: there is
\* no jump at the threshold.
C11_TaxContinuousAtThreshold ==
  \A i \in DOMAIN taxlog :
    LET e == taxlog[i].salary - 187895000
    IN  /\ e <= 0 => taxlog[i].tax = 0
        /\ (0 < e /\ e < 5 * Million) =>
              /\ taxlog[i].tax = (10 * e) \div 4
              /\ taxlog[i].tax <= 3 * e

\* C11 witness: a call with the payroll exactly on the threshold returned 0 and
\* the next call, four dollars above it, returned ten dollars.
C11_Witness ==
  /\ Len(taxlog) = 2
  /\ taxlog[1].salary = LUXURY_TAX_LINE /\ taxlog[1].tax = 0
  /\ taxlog[2].salary = LUXURY_TAX_LINE + 4 /\ taxlog[2].tax = 10

RECURSIVE SeqSum(_)
SeqSum(q) == IF q = << >> THEN 0 ELSE q[1] + SeqSum(Tail(q))

\* the tax charged on the recorded bracket portions, each at its bracket's multiplier
RECURSIVE PortionsTax(_, _)
PortionsTax(q, k) ==
  IF k = 0 THEN 0
  ELSE PortionsTax(q, k - 1) + MulRate(q[k], ScheduleRates[k])

\* C12: no part of the excess is taxed twice: the portions charged to the
\* brackets add up to at most the excess (and the tax is the charge on exactly
\* these portions), and when the excess equals the combined width of the first
\* k brackets (k times 5 million) no bracket above the k-th is charged anything.
C12_NoDoubleTaxation ==
  \A i \in DOMAIN taxlog :
    LET e == taxlog[i].salary - 187895000
        q == taxlog[i].portions
    IN  e > 0 =>
          /\ \A k \in DOMAIN q : q[k] >= 0
          /\ SeqSum(q) <= e
          /\ taxlog[i].tax = PortionsTax(q, Len(q))
          /\ \A k \in 1..4 :
               e = k * 5 * Million => \A j \in DOMAIN q : j > k => q[j] = 0

\* C12 witness: an excess of exactly 10 million (the width of the first two
\* brackets) was charged 5 million to each of them and nothing further.
C12_Witness ==
  \E i \in DOMAIN taxlog :
    /\ taxlog[i].salary = LUXURY_TAX_LINE + 10 * Million
    /\ SeqSum(taxlog[i].portions) = 10 * Million
    /\ taxlog[i].portions[1] = 5 * Million
    /\ taxlog[i].portions[2] = 5 * Million

(***************************************************************************)
(* Claims about the trajectory evaluations (checked under SpecEval).       *)
(***************************************************************************)
\* the Euler update written out: s + dt * f with dt = H / (NGrid - 1)
EulerOf(s, f) ==
  <<s[1] + (f[1] * H) \div (NGrid - 1), s[2] + (f[2] * H) \div (NGrid - 1)>>

\* step j (1-based) of a trace starts at grid point j - 1 and uses the payroll
\* interpolated there
IsEulerStep(trace, traj, j) ==
  trace[j + 1] = EulerOf(trace[j], dynamics(trace[j], Interp(traj, j - 1)))

\* the profit rate dP/dt of step j of a trace
RateAt(trace, traj, j) == dynamics(trace[j], Interp(traj, j - 1))[1]

\* C2: an objective evaluation of a trajectory that fails the feasibility
\* constraint returns more than the plain negated discounted value (a penalty
\* is added); it is never scored by the unpenalized objective alone.
C2_InfeasibleIsPenalized ==
  (ret.fn = "objective" /\ constraint_min_profit(ret.traj) < 0)
    => ret.value[1] > 0 - ev.total_value

\* C6: every evaluation starts from (P0, B0) and advances by forward-Euler
\* steps state + dt * f(state, payroll at the left grid point), dt = H/(N-1);
\* when it returns it has made exactly N-1 steps and gone through N states.
C6_ForwardEuler ==
  ev.fn # "idle" =>
    /\ ev.trace[1] = <<P0, B0>>
    /\ Len(ev.trace) = ev.i + 1
    /\ ev.i >= 1 => IsEulerStep(ev.trace, ev.traj, ev.i)
    /\ ret.fn # "none" =>
         /\ ev.i = NGrid - 1
         /\ Len(ev.trace) = NGrid
         /\ \A j \in 1..(NGrid - 1) : IsEulerStep(ev.trace, ev.traj, j)
    /\ ev.fn = "simulate" => ev.sim.states = ev.trace

\* C6 witness: an objective evaluation of a non-flat trajectory has returned.
C6_Witness ==
  /\ ret.fn = "objective"
  /\ \E k \in 2..n_periods : ret.traj[k] # ret.traj[1]
  /\ Len(ev.trace) = NGrid
  /\ ev.trace[NGrid] # ev.trace[1]

\* the discounted term of step j: exp(-rho t_j) (w1 P_j + w2 7 B_j) dt, on the
\* state after the step
DiscountedTerm(trace, j) ==
  LET P == trace[j + 1][1]
      V == 7 * trace[j + 1][2]
      discount == ExpNeg(RhoT(j))
  IN  (((discount * ((6 * P + 4 * V) \div 10)) \div DiscScale) * H) \div (NGrid - 1)

RECURSIVE DiscountedSum(_, _)
DiscountedSum(trace, j) ==
  IF j = 0 THEN 0 ELSE DiscountedSum(trace, j - 1) + DiscountedTerm(trace, j)

\* C7: objective_function returns minus the sum over the N-1 steps of
\* exp(-rho t_{i+1}) (w1 profit_{i+1} + w2 V_{i+1}) dt, V = 7 * brand value.
C7_ObjectiveIsDiscountedSum ==
  ret.fn = "objective" =>
    ret.value[1] = 0 - DiscountedSum(ev.trace, NGrid - 1)

\* C7 witness: an objective evaluation returned a positive discounted value
\* for a trajectory inside the bounds.
C7_Witness ==
  /\ ret.fn = "objective"
  /\ ret.value[1] < 0
  /\ \A k \in 1..n_periods : ret.traj[k] \in PAYROLL_MIN..PAYROLL_MAX
  /\ \E k \in 2..n_periods : ret.traj[k] # ret.traj[1]

FreshValue(fn, traj) ==
  CASE fn = "objective" -> <<objective_function(traj)>>
    [] fn = "constraint" -> <<constraint_min_profit(traj)>>
    [] fn = "simulate" ->
         LET last == Simulation(traj).states[NGrid]
         IN  <<last[1], last[2], last[2] * VALUATION_MULTIPLE>>

\* C9: whatever was evaluated before, an evaluation returns the value and goes
\* through the state sequence that evaluating the trajectory on its own yields.
C9_HistoryIndependent ==
  ret.fn # "none" =>
    /\ ret.value = FreshValue(ret.fn, ret.traj)
    /\ ev.trace = Simulation(ret.traj).states

\* C9 witness: a second evaluation, after an earlier one, has returned.
C9_Witness ==
  /\ ret.fn = "objective"
  /\ ev.calls = 2
  /\ ret.value[1] # 0

\* C18: at every step, from the state (profit, brandValue) and the payroll of
\* the step, dynamics returns dProfit/dt = revenue(winRate, brandValue) -
\* expense(payroll), with expense = payroll + luxury tax + operating cost and
\* winRate = win_rate_function(payroll), and dBrand/dt = perfCoeff winRate +
\* starCoeff starEffect - decayRate brandValue; the simulation's separately
\* computed revenue and expense of the step give the same profit rate.
C18_DynamicsEquations ==
  (ev.fn # "idle" /\ ev.i >= 1) =>
    LET s == ev.trace[ev.i]
        payroll == Interp(ev.traj, ev.i - 1)
        winRate == win_rate_function(payroll)
        expense == payroll + calculate_luxury_tax(payroll * MoneyUnit) \div MoneyUnit
                   + C_OPS
        dProfit == revenue_function(winRate, s[2]) - expense
        dBrand == (ETA * winRate) \div WinScale + ZETA * STAR_EFFECT
                  - (DELTA_NUM * s[2]) \div DELTA_DEN
    IN  /\ dynamics(s, payroll) = <<dProfit, dBrand>>
        /\ ev.trace[ev.i + 1] = EulerOf(s, <<dProfit, dBrand>>)
        /\ ev.fn = "simulate" =>
             /\ ev.sim.expenses[ev.i] = expense
             /\ ev.sim.profits[ev.i] = ev.sim.revenues[ev.i] - ev.sim.expenses[ev.i]
             /\ ev.sim.profits[ev.i] = dProfit

\* C18 witness: a simulation step made with a payroll that pays luxury tax, its
\* profit rate recorded, the brand value having moved.
C18_Witness ==
  /\ ev.fn = "simulate"
  /\ ev.i >= 1
  /\ calculate_luxury_tax(Interp(ev.traj, ev.i - 1) * MoneyUnit) > 0
  /\ Len(ev.sim.profits) = ev.i
  /\ ev.trace[ev.i + 1][2] # ev.trace[ev.i][2]

(***************************************************************************)
(* Claims about the optimisation (checked under Spec).                     *)
(***************************************************************************)
\* C3: the decision vector returned by the optimizer is feasible: the minimum
\* profit rate along its trajectory plus the tolerated loss is >= 0.
C3_ReturnedVectorFeasible ==
  /\ result # NoValue => constraint_min_profit(result.x) >= 0
  /\ sim # NoValue => \A i \in DOMAIN sim.profits : sim.profits[i] + 500 >= 0

\* C3 witness: the run has finished with a returned vector that reaches the
\* upper payroll bound, and its simulation recorded all N-1 profit rates.
C3_Witness ==
  /\ pc = "done"
  /\ \E k \in 1..n_periods : result.x[k] = PAYROLL_MAX
  /\ Len(sim.profits) = NGrid - 1

C13_WinRateClipped ==
  call.fn = "win_rate_function" =>
    LET l == LogSalaryMillionsE(call.args[1], call.args[2])
        raw == MulSlope(l) + SALARY_WIN_INTERCEPT
    IN  /\ call.value[1] # NaN
        /\ 30000 <= call.value[1] /\ call.value[1] <= 80000
        /\ (call.args[1] > 0 /\ raw < 30000) => call.value[1] = 30000
        /\ (call.args[1] > 0 /\ raw > 80000) => call.value[1] = 80000

\* C14: a payroll <= 0 passed to win_rate_function, or to dynamics which calls
\* it, ends in a NumericDomain error instead of a returned value.
C14_NonPositivePayrollRejected ==
  /\ (call.fn = "win_rate_function" /\ call.args[1] <= 0)
       => call.outcome = "NumericDomain"
  /\ (call.fn = "dynamics" /\ call.args[2] <= 0)
       => call.outcome = "NumericDomain"

\* a configuration is valid when the brackets are ascending and disjoint, the
\* bounds are ordered, the horizon is positive and the grid has two points or more
ValidConfig(cfg) ==
  LET b == cfg.TAX_BRACKETS
  IN  /\ \A k \in DOMAIN b : b[k][1] <= b[k][2]
      /\ \A k \in DOMAIN b : k < Len(b) => b[k][2] < b[k + 1][1]
      /\ cfg.bounds[1] <= cfg.bounds[2]
      /\ cfg.H > 0
      /\ cfg.NGrid >= 2

\* C15: under an invalid configuration (brackets non-monotonic or overlapping,
\* payrollMin > payrollMax, horizon <= 0, grid resolution < 2) a call ends in an
\* InvalidParameter error: it never returns a tax value or an objective value.
C15_InvalidConfigRejected ==
  (call.fn \in {"calculate_luxury_tax", "objective_function"} /\ ~ValidConfig(call.cfg))
    => call.outcome = "InvalidParameter"

\* C19: revenue_function adds the full playoff bonus (34.7M) to the base revenue
\* whenever winRate >= 0.5, the threshold included, and adds exactly zero
\* whenever winRate < 0.5; the bonus is never a fraction of 34.7M.
C19_PlayoffBonusIsStep ==
  call.fn = "revenue_function" =>
    LET winRate == call.args[1]
        base == R_FIXED + (ALPHA * winRate) \div WinScale
                + (BETA * call.args[2]) \div BrandScale
        bonus == call.value[1] - base
    IN  /\ winRate >= 50000 => bonus = 347
        /\ winRate < 50000 => bonus = 0

\* C19 witness: a call with the win rate exactly on the threshold got the full bonus.
C19_Witness ==
  /\ call.fn = "revenue_function"
  /\ call.args[1] = PLAYOFF_THRESHOLD
  /\ call.value[1] - revenue_function(PLAYOFF_THRESHOLD - 1, call.args[2]) >= PLAYOFF_BONUS

\* every state an objective evaluation went through has strictly positive
\* cumulative profit and a non-negative valuation
PositiveRun(states) ==
  \A j \in DOMAIN states : states[j][1] > 0 /\ 7 * states[j][2] >= 0

\* C20: for a trajectory whose cumulative profit is strictly positive and whose
\* valuation is non-negative at every integration step, the discounted value
\* (minus the returned objective) under any larger profit weight w1, all else
\* unchanged, is at least the value under the weight of the call; under the
\* script's own globals the value is the one objective_function returns.
C20_MonotoneInProfitWeight ==
  call.fn = "objective_function" =>
    /\ call.cfg = ScriptConfig => call.value[1] = objective_function(call.args[1])
    /\ PositiveRun(call.args[2]) =>
         \A w \in 0..WeightDen :
           w > call.cfg.W1 =>
             0 - objective_function_cfg([call.cfg EXCEPT !.W1 = w], call.args[1])
               >= 0 - call.value[1]

\* C20 witness: a call under the script's globals on a trajectory with positive
\* profit at all N-1 steps, whose value grows strictly when w1 goes from 0.6 to 1.
C20_Witness ==
  /\ call.fn = "objective_function"
  /\ call.cfg = ScriptConfig
  /\ Len(call.args[2]) = NGrid - 1
  /\ PositiveRun(call.args[2])
  /\ 0 - objective_function_cfg([call.cfg EXCEPT !.W1 = WeightDen], call.args[1])
       > 0 - call.value[1]

(***************************************************************************)
(* Claims about the scenario comparison (Spec).                            *)
(***************************************************************************)
\* C21: the scenario comparison outputs the three scenarios ordered by
\* discounted value (highest first), every entry carries the name, the
\* discounted value, the realized terminal profit and the realized terminal
\* brand value, and the scenario reported as best has the highest value.
C21_ScenariosRanked ==
  scen # NoValue =>
    /\ \A j \in 1..(Len(scen.report) - 1) :
         scen.report[j].value >= scen.report[j + 1].value
    /\ \A j \in 1..Len(scen.report) :
         {"name", "value", "terminal_profit", "terminal_brand"}
           \subseteq DOMAIN scen.report[j]
    /\ \A j \in 1..Len(scen.report) :
         scen.report[j].name = scen.best =>
           \A k \in 1..Len(scen.report) : scen.report[j].value >= scen.report[k].value

(***************************************************************************)
(* Claims about the interpolation of the payroll trajectory (SpecCalls).   *)
(***************************************************************************)
\* C22: consecutive decision points are exactly one year apart on the time
\* axis: on a grid whose points are one year apart, the interpolated payroll
\* one year after decision point k (k = 1 .. 4, the first one at t = 0) equals
\* decision value k + 1.
C22_DecisionPointsYearly ==
  (call.fn = "salary_interp" /\ call.cfg.NGrid = call.cfg.H + 1) =>
    \A k \in 1..(Len(call.args[1]) - 1) :
      call.value[k + 1] = call.args[1][k + 1]

(***************************************************************************)
(* Frame of an evaluation (SpecEval).                                      *)
(***************************************************************************)
\* C23: an evaluation leaves unchanged the trajectory passed in, the initial
\* state [P0, B0] it started from and everything the script holds outside the
\* evaluation; its state changes only inside the evaluation, one step of the
\* loop at a time (the states gone through so far stay as they were), and the
\* next evaluation starts from [P0, B0] again, whatever the last one left.
C23_EvaluationFrame ==
  [][ /\ UNCHANGED <<taxlog, pc, opt, result, sim, scen, call>>
      /\ (ev.running /\ ev'.running) =>
            /\ ev'.traj = ev.traj
            /\ ev'.i = ev.i + 1
            /\ Len(ev'.trace) = Len(ev.trace) + 1
            /\ \A j \in 1..Len(ev.trace) : ev'.trace[j] = ev.trace[j]
            /\ ev'.trace[1] = <<P0, B0>>
      /\ (ev.running /\ ~ev'.running) =>
            /\ ev'.traj = ev.traj
            /\ ret'.traj = ev.traj
            /\ ev'.trace = ev.trace
      /\ (~ev.running /\ ev'.running) =>
            /\ ev'.state = <<P0, B0>>
            /\ ev'.trace = << <<P0, B0>> >>
            /\ ev'.i = 0
    ]_vars

\* a second evaluation, of a trajectory that is not flat, is under way after
\* the first one returned with another final state
C23_Witness ==
  /\ ev.running
  /\ ev.calls = 2
  /\ ev.i = NGrid \div 2
  /\ \E j \in 2..n_periods : ev.traj[j] # ev.traj[1]
  /\ ev.state # <<P0, B0>>

(***************************************************************************)
(* Convergence of the integration under grid refinement (SpecCalls).       *)
(***************************************************************************)
\* the cumulative profit at the end of the loop of objective_function on the
\* grid of cfg with steps + 1 points
FinalProfitOn(cfg, steps, traj) ==
  ObjRunCfg([cfg EXCEPT !.NGrid = steps + 1], traj).state[1]

Abs(x) == IF x < 0 THEN 0 - x ELSE x

IsDoubling(n) == \E k \in 0..(MaxDoublings + 1) : n = Pow2(k)

IsFlat(traj) == \A j \in DOMAIN traj : traj[j] = traj[1]

\* C24: for a constant payroll trajectory, doubling the number of steps of the
\* grid changes the final cumulative profit by less than the previous doubling
\* did (and therefore by no more than the first doubling): the change from
\* n/2 to n steps is strictly smaller than the change from n/4 to n/2 steps.
C24_EulerRefinementShrinks ==
  ( /\ call.fn = "objective_function"
    /\ call.cfg.H = H
    /\ IsFlat(call.args[1])
    /\ IsDoubling(call.cfg.NGrid - 1)
    /\ call.cfg.NGrid - 1 >= 4 ) =>
    LET n == call.cfg.NGrid - 1
        Pn == call.args[2][n][1]
        Ph == FinalProfitOn(call.cfg, n \div 2, call.args[1])
        Pq == FinalProfitOn(call.cfg, n \div 4, call.args[1])
    IN  /\ Abs(Pn - Ph) < Abs(Ph - Pq)
        /\ Abs(Pn - Ph) <= Abs(FinalProfitOn(call.cfg, 2, call.args[1])
                                - FinalProfitOn(call.cfg, 1, call.args[1]))

\* C24 witness: a call on the finest grid, on a constant trajectory, whose final
\* profit still differs from the one on the grid of half as many steps
C24_Witness ==
  /\ call.fn = "objective_function"
  /\ call.cfg.H = H
  /\ IsFlat(call.args[1])
  /\ call.cfg.NGrid - 1 = Pow2(MaxDoublings)
  /\ call.args[2][call.cfg.NGrid - 1][1]
       # FinalProfitOn(call.cfg, (call.cfg.NGrid - 1) \div 2, call.args[1])

(***************************************************************************)
(* Agreement of the three integration loops (SpecEval).                    *)
(***************************************************************************)
\* the state each loop reaches from state s with the payroll of grid index i
ObjNext(s, traj, i) == ObjStep([state |-> s, total_value |-> 0], traj, i).state
ConNext(s, traj, i) == ConStep([state |-> s, min_annual_profit |-> Inf], traj, i).state
SimNext(s, traj, i) == SimStep([SimInit EXCEPT !.states = <<s>>], traj, i).states[2]

\* C25: the loops of objective_function, of constraint_min_profit and of the
\* simulation start from the same state and, from every state an evaluation
\* goes through, take the same step, so their state sequences are identical
\* step for step; the profit rate constraint_min_profit takes the minimum of is
\* the one the simulation records, and that one is recorded revenue minus
\* recorded expense.
C25_LoopsAgree ==
  /\ ObjInit.state = ConInit.state
  /\ ConInit.state = SimInit.states[1]
  /\ ev.fn # "idle" => ev.trace[1] = SimInit.states[1]
  /\ (ev.fn # "idle" /\ ev.i >= 1) =>
       LET s == ev.trace[ev.i]
           i == ev.i - 1
           simstep == SimStep([SimInit EXCEPT !.states = <<s>>], ev.traj, i)
       IN  /\ ev.trace[ev.i + 1] = ObjNext(s, ev.traj, i)
           /\ ev.trace[ev.i + 1] = ConNext(s, ev.traj, i)
           /\ ev.trace[ev.i + 1] = SimNext(s, ev.traj, i)
           /\ ConStep([state |-> s, min_annual_profit |-> Inf], ev.traj, i).min_annual_profit
                = simstep.profits[1]
           /\ simstep.profits[1] = simstep.revenues[1] - simstep.expenses[1]
           /\ ev.fn = "simulate" =>
                /\ ev.sim.states = ev.trace
                /\ ev.sim.profits[ev.i] = ev.sim.revenues[ev.i] - ev.sim.expenses[ev.i]

\* C25 witness: objective_function has returned after all N-1 steps on a
\* trajectory that is not flat, the brand value having moved in the last step
C25_Witness ==
  /\ ev.fn = "objective"
  /\ ~ev.running
  /\ ev.i = NGrid - 1
  /\ \E j \in 2..n_periods : ev.traj[j] # ev.traj[1]
  /\ ev.trace[ev.i + 1][2] # ev.trace[ev.i][2]

(***************************************************************************)
(* The two luxury-tax evaluators (SpecCalls).                              *)
(***************************************************************************)
\* C26: for every excess over the threshold, up to the 1019 million the roster
\* module's brackets cover, calculate_luxury_tax of Q1_dynamic_sys.py on the
\* excess in dollars and calculate_luxury_tax of Q2_evaluate.py on the same
\* excess in millions return the same tax, after conversion to dollars.
C26_TaxEvaluatorsAgree ==
  (call.fn = "Q2_evaluate.calculate_luxury_tax"
     /\ call.args[1] >= Q2_luxury_tax_threshold) =>
    LET over == call.args[1] - Q2_luxury_tax_threshold
    IN  Q2ToDollars(call.value[1])
          = calculate_luxury_tax(LUXURY_TAX_LINE + Q2ToDollars(over))

(***************************************************************************)
(* Sign of the brand value (SpecEval).                                     *)
(***************************************************************************)
\* C27: the brand value is >= 0 after every step of every evaluation (no clamp
\* is applied), and the step taken with the same payroll from a brand value of
\* zero, the smallest admissible start, ends at a brand value >= 0 as well.
C27_BrandNonNegative ==
  ev.fn # "idle" =>
    /\ \A j \in DOMAIN ev.trace : ev.trace[j][2] >= 0
    /\ ev.i >= 1 =>
         LET salary == Interp(ev.traj, ev.i - 1)
             zero == <<ev.trace[ev.i][1], 0>>
         IN  EulerStep(zero, dynamics(zero, salary))[2] >= 0

\* C27 witness: an evaluation at the last grid point, of a trajectory that is
\* not flat, whose brand value has moved away from B0
C27_Witness ==
  /\ ev.fn # "idle"
  /\ ev.i = NGrid - 1
  /\ Len(ev.trace) = NGrid
  /\ \E j \in 2..n_periods : ev.traj[j] # ev.traj[1]
  /\ ev.trace[NGrid][2] # B0

\* the smallest and the largest decision value of a trajectory
TrajMin(traj) == CHOOSE v \in {traj[j] : j \in DOMAIN traj} :
                   \A j \in DOMAIN traj : v <= traj[j]
TrajMax(traj) == CHOOSE v \in {traj[j] : j \in DOMAIN traj} :
                   \A j \in DOMAIN traj : v >= traj[j]

\* C28: the payroll interpolated at every grid point lies between the smallest
\* and the largest decision value of the trajectory (so a trajectory inside
\* [payrollMin, payrollMax] yields payrolls inside those bounds), and the
\* payroll at t = 0 is the first decision value.
C28_InterpolationInRange ==
  call.fn = "salary_interp" =>
    LET traj == call.args[1]
    IN  /\ Len(call.value) = call.cfg.NGrid
        /\ \A j \in DOMAIN call.value :
             TrajMin(traj) <= call.value[j] /\ call.value[j] <= TrajMax(traj)
        /\ (\A k \in DOMAIN traj : PAYROLL_MIN <= traj[k] /\ traj[k] <= PAYROLL_MAX) =>
             \A j \in DOMAIN call.value :
               PAYROLL_MIN <= call.value[j] /\ call.value[j] <= PAYROLL_MAX
        /\ call.value[1] = traj[1]

\* C28 witness: the script's grid and a trajectory inside the bounds whose
\* second decision value is a spike; some grid point gets a payroll strictly
\* between two decision values
C28_Witness ==
  /\ call.fn = "salary_interp"
  /\ call.cfg = ScriptConfig
  /\ call.args[1] = Spike(PAYROLL_MIN, 2, PAYROLL_MAX)
  /\ \E j \in DOMAIN call.value :
       PAYROLL_MIN < call.value[j] /\ call.value[j] < PAYROLL_MAX

(***************************************************************************)
(* Independence of the rates from the cumulative profit (SpecEval).        *)
(***************************************************************************)
\* differences between two initial cumulative profits, in money units
P0Shifts == {0 - 2 * MAX_LOSS, MAX_LOSS, 20 * MAX_LOSS}

\* C29: an integration of the same trajectory started from P0 + d instead of P0
\* goes, step for step, through the same brand values and the same profit
\* rates, and its cumulative profit is that of the original plus d: from every
\* state of an evaluation, the step from the state shifted by d has the same
\* derivatives and ends in the shifted next state; the whole loop of
\* constraint_min_profit started from [P0 + d, B0] returns the same minimum
\* profit rate and ends in the final state shifted by d.
C29_RatesIndependentOfProfit ==
  \A d \in P0Shifts :
    /\ (ev.fn # "idle" /\ ev.i >= 1) =>
         LET s == ev.trace[ev.i]
             shifted == <<s[1] + d, s[2]>>
             salary == Interp(ev.traj, ev.i - 1)
         IN  /\ dynamics(shifted, salary) = dynamics(s, salary)
             /\ ConNext(shifted, ev.traj, ev.i - 1)
                  = <<ev.trace[ev.i + 1][1] + d, ev.trace[ev.i + 1][2]>>
             /\ ObjNext(shifted, ev.traj, ev.i - 1)
                  = <<ev.trace[ev.i + 1][1] + d, ev.trace[ev.i + 1][2]>>
    /\ (ev.fn = "constraint" /\ ev.i = NGrid - 1) =>
         LET other == ConLoop([state |-> <<P0 + d, B0>>, min_annual_profit |-> Inf],
                              ev.traj, 0, NGrid - 1)
         IN  /\ other.min_annual_profit = ev.min_annual_profit
             /\ other.state = <<ev.state[1] + d, ev.state[2]>>

\* C29 witness: constraint_min_profit has gone through all steps of a
\* trajectory that is not flat and has accumulated a profit other than zero
C29_Witness ==
  /\ ev.fn = "constraint"
  /\ ev.i = NGrid - 1
  /\ \E j \in 2..n_periods : ev.traj[j] # ev.traj[1]
  /\ ev.state[1] # P0
  /\ ev.min_annual_profit < Inf

(***************************************************************************)
(* The Pareto front of the roster evaluation (SpecCalls).                  *)
(***************************************************************************)
\* entry i of the summary is not dominated: no other entry has wins >= its wins
\* and profit >= its profit with at least one of the two strictly greater
NonDominated(summary, i) ==
  ~\E j \in DOMAIN summary :
      /\ j # i
      /\ summary[j].wins >= summary[i].wins
      /\ summary[j].profit >= summary[i].profit
      /\ ~(summary[j].wins = summary[i].wins /\ summary[j].profit = summary[i].profit)

\* C30: find_pareto_front returns exactly the non-dominated entries of the
\* summary, each once and in input order; every omitted entry is dominated by
\* some returned entry; of two entries with identical wins and profit either
\* both are returned or neither is.
C30_ParetoFrontExact ==
  call.fn = "find_pareto_front" =>
    LET summary == call.args[1]
        pareto == call.value
        returned == { pareto[k].name : k \in DOMAIN pareto }
    IN  /\ \A k \in DOMAIN pareto :
             pareto[k].name \in DOMAIN summary /\ pareto[k] = summary[pareto[k].name]
        /\ \A k \in DOMAIN pareto :
             k < Len(pareto) => pareto[k].name < pareto[k + 1].name
        /\ returned = { i \in DOMAIN summary : NonDominated(summary, i) }
        /\ \A i \in DOMAIN summary \ returned :
             \E j \in returned :
               /\ summary[j].wins >= summary[i].wins
               /\ summary[j].profit >= summary[i].profit
               /\ summary[j].wins > summary[i].wins \/ summary[j].profit > summary[i].profit
        /\ \A i, j \in DOMAIN summary :
             (summary[i].wins = summary[j].wins /\ summary[i].profit = summary[j].profit)
               => (i \in returned <=> j \in returned)

\* C30 witness: a summary of three entries, two of them with identical wins and
\* profit and both returned, the third one omitted
C30_Witness ==
  /\ call.fn = "find_pareto_front"
  /\ Len(call.args[1]) = 3
  /\ Len(call.value) = 2
  /\ call.value[1].wins = call.value[2].wins
  /\ call.value[1].profit = call.value[2].profit

====
